---------------------------- MODULE Spec2Model ----------------------------
(***************************************************************************)
(* Model of CivicGPT's text processing (src/utils/text_processor.py), of   *)
(* its sentiment analyzer (src/services/sentiment_analyzer.py) and of the  *)
(* API in front of them (src/api) with the dashboard's health probe.       *)
(*                                                                         *)
(* A text is a sequence of characters; a character is a one-element string *)
(* ("a", " ", "\n", ...) except the ligature U+FB01, written "U+FB01".     *)
(* The operators below compute what the Python code computes, step by      *)
(* step; the state machine applies them to inputs drawn from bounded sets. *)
(***************************************************************************)
EXTENDS Integers, Sequences, FiniteSets, TLC

VARIABLES
    max_length,   \* TextProcessor.max_length, set by __init__ from the settings
    text,         \* the argument of the call
    arg,          \* the max_length argument of truncate_text: <<m>>, or <<>>
                  \* when it is not given; for a batch, what the libraries
                  \* make of each text
    op,           \* the operation that has run ("none" before the call)
    result,       \* what the operation returned
    raised,       \* the exception the operation raised ("" when it returned)
    caught,       \* the exception the operation caught inside ("" when
                  \* there was none)
    backend,      \* the API server: "running" or "stopped"
    handlers      \* the calls in progress on the shared instances, one
                  \* record for each request handler

vars == <<max_length, text, arg, op, result, raised, caught, backend, handlers>>

\* the absent text, Python's None: a value that is no sequence of characters
None == <<"None">>

---------------------------------------------------------------------------
(* Bounds of the model. *)

\* longest text of the exhaustive input set
MaxLen == 5
\* longest text of the input set with accented letters
MaxAccentLen == 4
\* a small configured MAX_POST_LENGTH, so that texts longer than it exist
SmallMaxPostLength == 4
\* the block texts A^i !^k a^j used for the percentage rules
MaxUpper == 63
MaxLower == 27
MaxPunct == 1
\* the most hashtags of a text of hashtags
MaxTags == 12
\* the most tokens of a text of tokens
MaxTokens == 3
\* the longest first word and the longest later word of a text of words
MaxFirstWord == 21
MaxWord == 5
\* the max_length arguments of truncate_text run from -MaxNegative to
\* MaxSmallLimit, plus 5 * WholeLimitFifth
MaxNegative == 2
MaxSmallLimit == 7
WholeLimitFifth == 5
\* the most texts of a batch
MaxBatch == 2
\* the request handlers that call the shared instances at the same time
NumHandlers == 2
\* longest short text of a request to the API
MaxApiLen == 5
\* the largest polarity and compound score, in tenths (the nominal range of
\* both ends at 10), and the largest subjectivity, in tenths
MaxSignal == 13
MaxSubjectivity == 10

\* Settings.max_post_length default
max_post_length == 280

---------------------------------------------------------------------------
(* Characters and the regular-expression classes the code uses. *)

\* the characters a raw text is drawn from
Alphabet == {"a", "A", " ", "\n", "$", "!", "U+FB01"}

\* \s, and what str.strip() and str.split() treat as whitespace
IsSpace(c) == c \in {" ", "\n", "\t", "\r"}

Digits == <<"0", "1", "2", "3", "4", "5", "6", "7", "8", "9">>

Letters == {"a", "A", "f", "i", "h", "t", "p", "s", "U+FB01",
            "c", "e", "U+00E9", "U+00E1", "U+0107"}

\* \w : letters (U+FB01 is a letter, category Ll; so are the accented letters
\* U+00E9, U+00E1 and U+0107), digits, underscore; the combining acute accent
\* U+0301 (category Mn) is none of them
IsWord(c) ==
    \/ c \in Letters
    \/ \E d \in 1..Len(Digits) : c = Digits[d]
    \/ c = "_"

\* [A-Z]
IsUpper(c) == c \in {"A"}

\* [!?]
IsPunct(c) == c \in {"!", "?"}

\* the class [\w\s@#.,!?;:()\-_'"] of clean_text
Allowed(c) ==
    \/ IsWord(c)
    \/ IsSpace(c)
    \/ c \in {"@", "#", ".", ",", "!", "?", ";", ":", "(", ")", "-", "_", "'", "\""}

\* "." of a pattern compiled without DOTALL: any character but the line feed
Dot(c) == c # "\n"

---------------------------------------------------------------------------
(* clean_text *)

\* unicodedata.normalize('NFKC', c) of one character
NFKC(c) == IF c = "U+FB01" THEN <<"f", "i">> ELSE <<c>>

RECURSIVE normalize_each(_)
\* the characters of the text, each one normalized
normalize_each(s) ==
    IF s = <<>> THEN <<>> ELSE NFKC(Head(s)) \o normalize_each(Tail(s))

\* the letters that compose with a combining acute accent that follows them
WithAcute(c) ==
    IF c = "e" THEN "U+00E9" ELSE IF c = "a" THEN "U+00E1"
    ELSE IF c = "c" THEN "U+0107" ELSE c

RECURSIVE compose_onto(_, _)
\* canonical composition: a combining acute accent right after a letter that
\* has an accented form joins it; after any other character it stays
compose_onto(out, s) ==
    IF s = <<>> THEN out
    ELSE IF /\ Head(s) = "U+0301"
            /\ out # <<>>
            /\ WithAcute(out[Len(out)]) # out[Len(out)]
         THEN compose_onto(SubSeq(out, 1, Len(out) - 1)
                               \o <<WithAcute(out[Len(out)])>>, Tail(s))
         ELSE compose_onto(Append(out, Head(s)), Tail(s))

\* unicodedata.normalize('NFKC', text): the accented letters stay accented
normalize(s) == compose_onto(<<>>, normalize_each(s))

RECURSIVE collapse_from(_, _)
collapse_from(s, i) ==
    IF i > Len(s) THEN <<>>
    ELSE IF IsSpace(s[i])
         THEN (IF i > 1 /\ IsSpace(s[i-1]) THEN <<>> ELSE <<" ">>) \o collapse_from(s, i+1)
         ELSE <<s[i]>> \o collapse_from(s, i+1)

\* re.sub(r'\s+', ' ', text): every maximal run of whitespace becomes one space
collapse_whitespace(s) == collapse_from(s, 1)

\* text.strip(): drop leading and trailing whitespace
strip(s) ==
    LET keep == {i \in 1..Len(s) : ~IsSpace(s[i])}
    IN  IF keep = {} THEN <<>>
        ELSE LET lo == CHOOSE i \in keep : \A j \in keep : i <= j
                 hi == CHOOSE i \in keep : \A j \in keep : j <= i
             IN  SubSeq(s, lo, hi)

\* re.sub(r'[^\w\s@#.,!?;:()\-_\'"]', '', text)
remove_disallowed(s) == SelectSeq(s, Allowed)

clean_text(s) ==
    IF s = None \/ s = <<>> THEN <<>>
    ELSE remove_disallowed(strip(collapse_whitespace(normalize(s))))

---------------------------------------------------------------------------
(* IEEE-754 double arithmetic of `len(text) * 0.7` and `len(text) * 0.1`.  *)
(* A double is mant * 2^(-scale), mant an integer of at most 53 bits,      *)
(* written least significant bit first.                                    *)

HexBits(h) ==
    <<h % 2, (h \div 2) % 2, (h \div 4) % 2, (h \div 8) % 2>>

RECURSIVE hex_to_bits(_)
\* the bits, least significant first, of a number written in hexadecimal
\* digits, most significant first
hex_to_bits(hs) ==
    IF hs = <<>> THEN <<>>
    ELSE hex_to_bits(Tail(hs)) \o HexBits(Head(hs))

RECURSIVE trim(_)
\* drop the leading zeros (the end of a least-significant-first sequence)
trim(bits) ==
    IF bits = <<>> THEN <<>>
    ELSE IF bits[Len(bits)] = 0 THEN trim(SubSeq(bits, 1, Len(bits) - 1))
    ELSE bits

\* the literal 0.7 is the double 0x3FE6666666666666 = 0x16666666666666 * 2^-53
Double07 ==
    [mant |-> trim(hex_to_bits(<<1, 6, 6, 6, 6, 6, 6, 6, 6, 6, 6, 6, 6, 6>>)),
     scale |-> 53]

\* the literal 0.1 is the double 0x3FB999999999999A = 0x1999999999999A * 2^-56
Double01 ==
    [mant |-> trim(hex_to_bits(<<1, 9, 9, 9, 9, 9, 9, 9, 9, 9, 9, 9, 9, 10>>)),
     scale |-> 56]

RECURSIVE mul_bits(_, _, _, _)
\* the exact product n * bits, least significant bit first
mul_bits(bits, n, i, carry) ==
    IF i > Len(bits)
    THEN (IF carry = 0 THEN <<>>
          ELSE <<carry % 2>> \o mul_bits(bits, n, i, carry \div 2))
    ELSE LET t == n * bits[i] + carry
         IN  <<t % 2>> \o mul_bits(bits, n, i + 1, t \div 2)

RECURSIVE inc_bits(_)
inc_bits(bits) ==
    IF bits = <<>> THEN <<1>>
    ELSE IF Head(bits) = 0 THEN <<1>> \o Tail(bits)
    ELSE <<0>> \o inc_bits(Tail(bits))

\* round an exact product to 53 significant bits, ties to even; the result
\* keeps the weight of its bits (the bits rounded away become zeros)
round53(bits) ==
    IF Len(bits) <= 53 THEN bits
    ELSE LET s == Len(bits) - 53
             q == SubSeq(bits, s + 1, Len(bits))
             guard == bits[s]
             sticky == \E i \in 1..(s - 1) : bits[i] = 1
             up == guard = 1 /\ (sticky \/ q[1] = 1)
         IN  [i \in 1..s |-> 0] \o (IF up THEN inc_bits(q) ELSE q)

RECURSIVE bits_value(_)
bits_value(bits) ==
    IF bits = <<>> THEN 0 ELSE Head(bits) + 2 * bits_value(Tail(bits))

\* floor(n * d) as the double multiplication computes it, n a non-negative int
float_mul_floor(n, d) ==
    LET p == round53(trim(mul_bits(d.mant, n, 1, 0)))
    IN  IF Len(p) <= d.scale THEN 0
        ELSE bits_value(SubSeq(p, d.scale + 1, Len(p)))

\* the products the model needs again and again, computed once
ProductRange == 0..400
Floor07 == [n \in ProductRange |-> float_mul_floor(n, Double07)]
Floor01 == [n \in ProductRange |-> float_mul_floor(n, Double01)]

\* floor(len * 0.7)
floor_times_07(n) ==
    IF n \in ProductRange THEN Floor07[n] ELSE float_mul_floor(n, Double07)

\* floor(len * 0.1)
floor_times_01(n) ==
    IF n \in ProductRange THEN Floor01[n] ELSE float_mul_floor(n, Double01)

---------------------------------------------------------------------------
(* validate_post *)

\* len(re.findall(r'[A-Z]', text))
count_upper(s) == Cardinality({i \in 1..Len(s) : IsUpper(s[i])})

\* len(re.findall(r'[!?]', text))
count_punct(s) == Cardinality({i \in 1..Len(s) : IsPunct(s[i])})

RECURSIVE split_from(_, _, _)
split_from(s, i, word) ==
    IF i > Len(s) THEN (IF word = <<>> THEN <<>> ELSE <<word>>)
    ELSE IF IsSpace(s[i])
         THEN (IF word = <<>> THEN <<>> ELSE <<word>>) \o split_from(s, i + 1, <<>>)
         ELSE split_from(s, i + 1, Append(word, s[i]))

\* text.split(): the maximal runs of non-whitespace, in order
split(s) == split_from(s, 1, <<>>)

_has_excessive_repetition(s) ==
    \/ \* re.search(r'(.)\1{3,}', text)
       \E i \in 1..(Len(s) - 3) :
           /\ Dot(s[i])
           /\ s[i+1] = s[i] /\ s[i+2] = s[i] /\ s[i+3] = s[i]
    \/ LET words == split(s)
       IN  \E i \in 1..(Len(words) - 2) :
               words[i] = words[i+1] /\ words[i+1] = words[i+2]

\* len(re.findall(r'#\w+', text)): a match starts at every '#' that a word
\* character follows, and runs over word characters only
hashtag_matches(s) ==
    Cardinality({i \in 1..(Len(s) - 1) : s[i] = "#" /\ IsWord(s[i+1])})

_is_spam_like(s) ==
    \/ \* an int is greater than a float exactly when it is greater than the
       \* float's floor
       count_upper(s) > floor_times_07(Len(s))
    \/ count_punct(s) > floor_times_01(Len(s))
    \/ hashtag_matches(s) > 10

ErrEmpty == "Post cannot be empty"
ErrLength(limit) ==
    "Post exceeds maximum length of " \o ToString(limit) \o " characters"
ErrShort == "Post must be at least 3 characters long"
ErrRepetition == "Post contains excessive repetition"
ErrSpam == "Post appears to be spam-like"

\* validate_post deciding is_valid before the spam rule has added its error
validate_post_valid_before_spam(s, limit) ==
    IF s = <<>> \/ strip(s) = <<>>
    THEN [is_valid |-> FALSE, errors |-> <<ErrEmpty>>]
    ELSE LET e1 == IF Len(s) > limit THEN <<ErrLength(limit)>> ELSE <<>>
             e2 == IF Len(strip(s)) < 3 THEN Append(e1, ErrShort) ELSE e1
             e3 == IF _has_excessive_repetition(s)
                   THEN Append(e2, ErrRepetition) ELSE e2
             e4 == IF _is_spam_like(s) THEN Append(e3, ErrSpam) ELSE e3
         IN  [is_valid |-> Len(e3) = 0, errors |-> e4]

\* validate_post without the early return of the empty case
validate_post_no_early_return(s, limit) ==
    LET e0 == IF s = <<>> \/ strip(s) = <<>> THEN <<ErrEmpty>> ELSE <<>>
        e1 == IF Len(s) > limit THEN Append(e0, ErrLength(limit)) ELSE e0
        e2 == IF Len(strip(s)) < 3 THEN Append(e1, ErrShort) ELSE e1
        e3 == IF _has_excessive_repetition(s)
              THEN Append(e2, ErrRepetition) ELSE e2
        e4 == IF _is_spam_like(s) THEN Append(e3, ErrSpam) ELSE e3
    IN  [is_valid |-> Len(e4) = 0, errors |-> e4]

\* validate_post with the rules chained by elif: the first failing rule only
validate_post_elif(s, limit) ==
    IF s = <<>> \/ strip(s) = <<>>
    THEN [is_valid |-> FALSE, errors |-> <<ErrEmpty>>]
    ELSE LET e == IF Len(s) > limit THEN <<ErrLength(limit)>>
                  ELSE IF Len(strip(s)) < 3 THEN <<ErrShort>>
                  ELSE IF _has_excessive_repetition(s) THEN <<ErrRepetition>>
                  ELSE IF _is_spam_like(s) THEN <<ErrSpam>>
                  ELSE <<>>
         IN  [is_valid |-> Len(e) = 0, errors |-> e]

\* validate_post with `>=` for `>` in the length rule
validate_post_ge(s, limit) ==
    IF s = <<>> \/ strip(s) = <<>>
    THEN [is_valid |-> FALSE, errors |-> <<ErrEmpty>>]
    ELSE LET e1 == IF Len(s) >= limit THEN <<ErrLength(limit)>> ELSE <<>>
             e2 == IF Len(strip(s)) < 3 THEN Append(e1, ErrShort) ELSE e1
             e3 == IF _has_excessive_repetition(s)
                   THEN Append(e2, ErrRepetition) ELSE e2
             e4 == IF _is_spam_like(s) THEN Append(e3, ErrSpam) ELSE e3
         IN  [is_valid |-> Len(e4) = 0, errors |-> e4]

\* validate_post measuring the untrimmed text in the minimum-length rule
validate_post_untrimmed(s, limit) ==
    IF s = <<>> \/ strip(s) = <<>>
    THEN [is_valid |-> FALSE, errors |-> <<ErrEmpty>>]
    ELSE LET e1 == IF Len(s) > limit THEN <<ErrLength(limit)>> ELSE <<>>
             e2 == IF Len(s) < 3 THEN Append(e1, ErrShort) ELSE e1
             e3 == IF _has_excessive_repetition(s)
                   THEN Append(e2, ErrRepetition) ELSE e2
             e4 == IF _is_spam_like(s) THEN Append(e3, ErrSpam) ELSE e3
         IN  [is_valid |-> Len(e4) = 0, errors |-> e4]

\* validate_post(text) of a TextProcessor whose max_length is limit
validate_post(s, limit) ==
    IF s = None \/ s = <<>> \/ strip(s) = <<>>
    THEN [is_valid |-> FALSE, errors |-> <<ErrEmpty>>]
    ELSE LET e1 == IF Len(s) > limit THEN <<ErrLength(limit)>> ELSE <<>>
             e2 == IF Len(strip(s)) < 3 THEN Append(e1, ErrShort) ELSE e1
             e3 == IF _has_excessive_repetition(s)
                   THEN Append(e2, ErrRepetition) ELSE e2
             e4 == IF _is_spam_like(s) THEN Append(e3, ErrSpam) ELSE e3
         IN  [is_valid |-> Len(e4) = 0, errors |-> e4]

---------------------------------------------------------------------------
(* extract_hashtags, extract_mentions, extract_urls, get_text_stats *)

RECURSIVE word_end(_, _)
\* the position of the last character of the run of word characters that
\* starts at position i
word_end(s, i) ==
    IF i < Len(s) /\ IsWord(s[i+1]) THEN word_end(s, i + 1) ELSE i

RECURSIVE findall_tags(_, _, _)
\* re.findall(c + r'(\w+)', text) from position i on: the matches in order,
\* each without the prefix character
findall_tags(s, c, i) ==
    IF i >= Len(s) THEN <<>>
    ELSE IF s[i] = c /\ IsWord(s[i+1])
         THEN LET j == word_end(s, i + 1)
              IN  <<SubSeq(s, i + 1, j)>> \o findall_tags(s, c, j + 1)
         ELSE findall_tags(s, c, i + 1)

\* a character of the class of url_pattern:
\* [a-zA-Z] | [0-9] | [$-_@.&+] | [!*\\(\\),] | %[0-9a-fA-F][0-9a-fA-F]
IsUrlChar(c) ==
    \/ c \in Letters \ {"U+FB01"}
    \/ \E d \in 1..Len(Digits) : c = Digits[d]
    \/ c \in {"$", "%", "&", "'", "(", ")", "*", "+", ",", "-", ".", "/",
              ":", ";", "<", "=", ">", "?", "@", "[", "\\", "]", "^", "_", "!"}

\* s holds the characters of word from position i on
starts_with(s, i, word) ==
    /\ i + Len(word) - 1 <= Len(s)
    /\ \A k \in 1..Len(word) : s[i + k - 1] = word[k]

\* the length of the scheme http[s]?:// that starts at position i, 0 if none
scheme_length(s, i) ==
    IF starts_with(s, i, <<"h", "t", "t", "p", "s", ":", "/", "/">>) THEN 8
    ELSE IF starts_with(s, i, <<"h", "t", "t", "p", ":", "/", "/">>) THEN 7
    ELSE 0

RECURSIVE url_end(_, _)
\* the position of the last character of the run of URL characters that
\* starts at position i
url_end(s, i) ==
    IF i < Len(s) /\ IsUrlChar(s[i+1]) THEN url_end(s, i + 1) ELSE i

RECURSIVE findall_urls(_, _)
\* re.findall(url_pattern, text) from position i on
findall_urls(s, i) ==
    IF i > Len(s) THEN <<>>
    ELSE LET n == scheme_length(s, i)
         IN  IF n > 0 /\ i + n <= Len(s) /\ IsUrlChar(s[i + n])
             THEN LET j == url_end(s, i + n)
                  IN  <<SubSeq(s, i, j)>> \o findall_urls(s, j + 1)
             ELSE findall_urls(s, i + 1)

\* set(matches)
set_of(matches) == {matches[i] : i \in 1..Len(matches)}

\* list(set(matches)) in the orders a set can be iterated in
lists_of(S) ==
    {l \in [1..Cardinality(S) -> S] : \A i, j \in 1..Cardinality(S) : l[i] = l[j] => i = j}

\* extract_hashtags returning the matches as found, duplicates kept
extract_hashtags_all_matches(s) == {findall_tags(s, "#", 1)}

\* the lists extract_hashtags(text) can return
extract_hashtags(s) == lists_of(set_of(findall_tags(s, "#", 1)))

\* the lists extract_mentions(text) can return
extract_mentions(s) == lists_of(set_of(findall_tags(s, "@", 1)))

\* the lists extract_urls(text) can return
extract_urls(s) == lists_of(set_of(findall_urls(s, 1)))

\* get_text_stats counting the occurrences of the hashtags
get_text_stats_occurrences(s) ==
    LET cleaned_text == clean_text(s)
    IN  {[original_length |-> Len(s),
          cleaned_length |-> Len(cleaned_text),
          word_count |-> Len(split(cleaned_text)),
          character_count |-> Len(cleaned_text),
          hashtag_count |-> Len(findall_tags(s, "#", 1)),
          mention_count |-> Len(mc),
          url_count |-> Len(uc),
          hashtags |-> h,
          mentions |-> m,
          urls |-> u] :
            mc \in extract_mentions(s), uc \in extract_urls(s),
            h \in extract_hashtags(s), m \in extract_mentions(s),
            u \in extract_urls(s)}

\* the records get_text_stats(text) can return
get_text_stats(s) ==
    LET cleaned_text == clean_text(s)
    IN  {[original_length |-> Len(s),
          cleaned_length |-> Len(cleaned_text),
          word_count |-> Len(split(cleaned_text)),
          character_count |-> Len(cleaned_text),
          hashtag_count |-> Len(hc),
          mention_count |-> Len(mc),
          url_count |-> Len(uc),
          hashtags |-> h,
          mentions |-> m,
          urls |-> u] :
            hc \in extract_hashtags(s), mc \in extract_mentions(s),
            uc \in extract_urls(s),
            h \in extract_hashtags(s), m \in extract_mentions(s),
            u \in extract_urls(s)}

---------------------------------------------------------------------------
(* truncate_text *)

\* the literal 0.8 is the double 0x3FE999999999999A = 0x1999999999999A * 2^-53
Double08 ==
    [mant |-> trim(hex_to_bits(<<1, 9, 9, 9, 9, 9, 9, 9, 9, 9, 9, 9, 9, 10>>)),
     scale |-> 53]

\* ceil(n * d) as the double multiplication computes it, n a non-negative int
float_mul_ceil(n, d) ==
    LET p == round53(trim(mul_bits(d.mant, n, 1, 0)))
        low == IF Len(p) <= d.scale THEN Len(p) ELSE d.scale
    IN  float_mul_floor(n, d)
        + (IF \E i \in 1..low : p[i] = 1 THEN 1 ELSE 0)

\* `k > m * 0.8` for ints k and m: the product of a negative m is the negated
\* product of -m; k > x is k > floor(x), and k > -x is ceil(x) > -k
int_gt_times_08(k, m) ==
    IF m >= 0 THEN k > float_mul_floor(m, Double08)
    ELSE float_mul_ceil(0 - m, Double08) > 0 - k

\* s[:k], Python's slice: a negative k counts from the end
slice_to(s, k) ==
    IF k >= 0 THEN SubSeq(s, 1, IF k < Len(s) THEN k ELSE Len(s))
    ELSE SubSeq(s, 1, Len(s) + k)

\* s.rfind(' '): the 0-based index of the last space, -1 when there is none
rfind_space(s) ==
    LET at == {i \in 1..Len(s) : s[i] = " "}
    IN  IF at = {} THEN 0 - 1
        ELSE (CHOOSE i \in at : \A j \in at : j <= i) - 1

Ellipsis == <<".", ".", ".">>

\* truncate_text(text, max_length) of a TextProcessor whose max_length is
\* self_max_length; a is <<max_length>>, or <<>> for the default None
truncate_text(s, a, self_max_length) ==
    LET limit == IF a = <<>> THEN self_max_length ELSE a[1]
    IN  IF Len(s) <= limit THEN s
        ELSE LET truncated == slice_to(s, limit - 3) \o Ellipsis
                 last_space == rfind_space(truncated)
             IN  IF int_gt_times_08(last_space, limit)
                 THEN slice_to(truncated, last_space) \o Ellipsis
                 ELSE truncated

---------------------------------------------------------------------------
(* SentimentAnalyzer (src/services/sentiment_analyzer.py).                  *)
(* The signals of TextBlob and VADER are exact decimals written in tenths,  *)
(* a score is written in hundredths (0.3 * p + 0.7 * c is 3 * p + 7 * c     *)
(* hundredths for p and c in tenths), and a confidence is the fraction      *)
(* num / den. The rounding of the double arithmetic is left out.            *)

\* positive_threshold and negative_threshold, in hundredths
positive_threshold == 10
negative_threshold == 0 - 10

\* 1.0, in hundredths
One == 100

Min(a, b) == IF a < b THEN a ELSE b
Max(a, b) == IF a > b THEN a ELSE b
Abs(a) == IF a < 0 THEN 0 - a ELSE a

\* _combine_sentiment_scores returning the weighted sum as it is
_combine_sentiment_scores_unclamped(textblob_score, vader_scores) ==
    (3 * textblob_score) + (7 * vader_scores.compound)

_combine_sentiment_scores(textblob_score, vader_scores) ==
    LET vader_score == vader_scores.compound
        combined == (3 * textblob_score) + (7 * vader_score)
    IN  Max(0 - One, Min(One, combined))

\* _classify_sentiment with `>=` and `<=` for `>` and `<`
_classify_sentiment_inclusive(score) ==
    IF score >= positive_threshold
    THEN [classification |-> "positive",
          confidence |-> [num |-> Min(One - positive_threshold, score - positive_threshold),
                          den |-> One - positive_threshold]]
    ELSE IF score <= negative_threshold
    THEN [classification |-> "negative",
          confidence |-> [num |-> Min(negative_threshold + One, negative_threshold - score),
                          den |-> negative_threshold + One]]
    ELSE [classification |-> "neutral",
          confidence |-> [num |-> One - Abs(score), den |-> One]]

\* _classify_sentiment dividing the score itself by 0.9, without the min
_classify_sentiment_unscaled(score) ==
    IF score > positive_threshold
    THEN [classification |-> "positive",
          confidence |-> [num |-> score, den |-> One - positive_threshold]]
    ELSE IF score < negative_threshold
    THEN [classification |-> "negative",
          confidence |-> [num |-> 0 - score, den |-> negative_threshold + One]]
    ELSE [classification |-> "neutral",
          confidence |-> [num |-> One - Abs(score), den |-> One]]

\* _classify_sentiment(score): the classification and the confidence
_classify_sentiment(score) ==
    IF score > positive_threshold
    THEN [classification |-> "positive",
          \* min(1.0, (score - positive_threshold) / (1.0 - positive_threshold))
          confidence |-> [num |-> Min(One - positive_threshold, score - positive_threshold),
                          den |-> One - positive_threshold]]
    ELSE IF score < negative_threshold
    THEN [classification |-> "negative",
          \* min(1.0, (negative_threshold - score) / (negative_threshold + 1.0))
          confidence |-> [num |-> Min(negative_threshold + One, negative_threshold - score),
                          den |-> negative_threshold + One]]
    ELSE [classification |-> "neutral",
          \* 1.0 - abs(score)
          confidence |-> [num |-> One - Abs(score), den |-> One]]

\* explanations[classification][0]
base_explanation(classification) ==
    IF classification = "positive"
    THEN "The post has a positive tone that could engage your audience well."
    ELSE IF classification = "negative"
    THEN "The post may come across as negative or critical."
    ELSE "The post has a balanced, neutral tone."

\* _generate_sentiment_explanation with the four tests in one if/elif chain
_generate_sentiment_explanation_chained(classification, score, subjectivity) ==
    LET e0 == base_explanation(classification)
    IN  IF subjectivity > 7
        THEN e0 \o " The content is quite subjective and personal."
        ELSE IF subjectivity < 3
        THEN e0 \o " The content is objective and factual."
        ELSE IF Abs(score) > 70
        THEN e0 \o " The sentiment is strongly expressed."
        ELSE IF Abs(score) < 20
        THEN e0 \o " The sentiment is subtle and understated."
        ELSE e0

\* _generate_sentiment_explanation; the subjectivity is in tenths
_generate_sentiment_explanation(classification, score, subjectivity) ==
    LET e0 == base_explanation(classification)
        e1 == IF subjectivity > 7
              THEN e0 \o " The content is quite subjective and personal."
              ELSE IF subjectivity < 3
              THEN e0 \o " The content is objective and factual."
              ELSE e0
    IN  IF Abs(score) > 70
        THEN e1 \o " The sentiment is strongly expressed."
        ELSE IF Abs(score) < 20
        THEN e1 \o " The sentiment is subtle and understated."
        ELSE e1

\* analyze_sentiment keeping the weighted sum before the clamp in the details
analyze_sentiment_raw_detail(textblob_sentiment, textblob_subjectivity, vader_scores) ==
    LET combined_sentiment ==
            _combine_sentiment_scores(textblob_sentiment, vader_scores)
        c == _classify_sentiment(combined_sentiment)
    IN  [sentiment |-> c.classification,
         confidence |-> c.confidence,
         score |-> combined_sentiment,
         explanation |-> _generate_sentiment_explanation(
                             c.classification, combined_sentiment,
                             textblob_subjectivity),
         details |-> [textblob |-> [polarity |-> textblob_sentiment,
                                    subjectivity |-> textblob_subjectivity],
                      vader |-> vader_scores,
                      combined |-> (3 * textblob_sentiment)
                                       + (7 * vader_scores.compound)]]

\* the record analyze_sentiment returns when TextBlob gives the polarity and
\* the subjectivity and VADER gives vader_scores
analyze_sentiment(textblob_sentiment, textblob_subjectivity, vader_scores) ==
    LET combined_sentiment ==
            _combine_sentiment_scores(textblob_sentiment, vader_scores)
        c == _classify_sentiment(combined_sentiment)
    IN  [sentiment |-> c.classification,
         confidence |-> c.confidence,
         score |-> combined_sentiment,
         explanation |-> _generate_sentiment_explanation(
                             c.classification, combined_sentiment,
                             textblob_subjectivity),
         details |-> [textblob |-> [polarity |-> textblob_sentiment,
                                    subjectivity |-> textblob_subjectivity],
                      vader |-> vader_scores,
                      combined |-> combined_sentiment]]

\* the explanation of the fallback record
FallbackExplanation == "Sentiment analysis was unable to process this text."

\* _get_fallback_sentiment with the confidence _classify_sentiment gives a
\* score of 0
_get_fallback_sentiment_classified ==
    [sentiment |-> "neutral",
     confidence |-> [num |-> 100, den |-> 100],
     score |-> 0,
     explanation |-> FallbackExplanation,
     details |-> [textblob |-> [polarity |-> 0, subjectivity |-> 5],
                  vader |-> [compound |-> 0, pos |-> 0, neg |-> 0, neu |-> 10],
                  combined |-> 0]]

\* _get_fallback_sentiment(): confidence 0.5, subjectivity 0.5 and neu 1.0,
\* every other number 0.0
_get_fallback_sentiment ==
    [sentiment |-> "neutral",
     confidence |-> [num |-> 50, den |-> 100],
     score |-> 0,
     explanation |-> FallbackExplanation,
     details |-> [textblob |-> [polarity |-> 0, subjectivity |-> 5],
                  vader |-> [compound |-> 0, pos |-> 0, neg |-> 0, neu |-> 10],
                  combined |-> 0]]

\* analyze_sentiment(text) when the libraries make `outcome` of the text: the
\* record of the try block, or the fallback record when one of them raised
analyze_sentiment_of(outcome) ==
    IF outcome.caught # ""
    THEN _get_fallback_sentiment
    ELSE analyze_sentiment(outcome.polarity, outcome.subjectivity, outcome.vader)

RECURSIVE analyze_sentiment_batch_skipping(_, _)
\* analyze_sentiment_batch leaving out the texts the analysis failed on
analyze_sentiment_batch_skipping(texts, library) ==
    IF texts = <<>> THEN <<>>
    ELSE (IF library[Head(texts)].caught # "" THEN <<>>
          ELSE <<analyze_sentiment_of(library[Head(texts)])>>)
         \o analyze_sentiment_batch_skipping(Tail(texts), library)

RECURSIVE analyze_sentiment_batch(_, _)
\* analyze_sentiment_batch(texts): the loop appends the record of each text;
\* library[t] is what TextBlob and VADER make of the text t
analyze_sentiment_batch(texts, library) ==
    IF texts = <<>> THEN <<>>
    ELSE <<analyze_sentiment_of(library[Head(texts)])>>
         \o analyze_sentiment_batch(Tail(texts), library)

---------------------------------------------------------------------------
(* The module-level functions on the global text_processor. *)

\* clean_and_validate_post validating the raw text
clean_and_validate_post_raw(s, self_max_length) ==
    LET cleaned_text == clean_text(s)
        v == validate_post(s, self_max_length)
    IN  [cleaned_text |-> cleaned_text, is_valid |-> v.is_valid, errors |-> v.errors]

\* clean_and_validate_post(text): (cleaned_text, is_valid, errors), the
\* validation being the one of the cleaned text
clean_and_validate_post(s, self_max_length) ==
    LET cleaned_text == clean_text(s)
        v == validate_post(cleaned_text, self_max_length)
    IN  [cleaned_text |-> cleaned_text, is_valid |-> v.is_valid, errors |-> v.errors]

\* get_post_statistics(text): the records get_text_stats can return
get_post_statistics(s) == get_text_stats(s)

---------------------------------------------------------------------------
(* The API: the request model, the analyze handler and the routes. *)

\* Field(..., min_length=1, max_length=280) of PostAnalysisRequest.text
request_min_length == 1
request_max_length == 280

\* PostAnalysisRequest(text=..., platform=...): the field constraints, then
\* validate_text, which rejects a blank text and returns the stripped one
PostAnalysisRequest(s, platform) ==
    IF s = None \/ Len(s) < request_min_length \/ Len(s) > request_max_length
    THEN [valid |-> FALSE]
    ELSE IF strip(s) = <<>>
    THEN [valid |-> FALSE]
    ELSE [valid |-> TRUE, text |-> strip(s), platform |-> platform]

RECURSIVE join(_)
\* '; '.join(errors)
join(errors) ==
    IF errors = <<>> THEN ""
    ELSE IF Len(errors) = 1 THEN errors[1]
    ELSE errors[1] \o "; " \o join(Tail(errors))

\* POST /api/analyze: a body that is no PostAnalysisRequest is answered with
\* 422 before the handler runs; the handler raises HTTPException(400) on an
\* invalid post and re-raises it; AnalysisResult rejects a platform that is
\* null, which the generic except branch turns into a 500 (its detail is the
\* message of the exception, written "ValidationError" here)
analyze_post(s, platform, self_max_length) ==
    LET request == PostAnalysisRequest(s, platform)
    IN  IF ~request.valid
        THEN [status_code |-> 422, detail |-> "RequestValidationError"]
        ELSE LET r == clean_and_validate_post(request.text, self_max_length)
             IN  IF ~r.is_valid
                 THEN [status_code |-> 400,
                       detail |-> "Invalid post: " \o join(r.errors)]
                 ELSE IF request.platform = None
                 THEN [status_code |-> 500,
                       detail |-> "Analysis failed: " \o "ValidationError"]
                 ELSE [status_code |-> 200, detail |-> ""]

\* the paths of the GET routes of the app ("/api/statistics/{text}" left out)
\* and of the POST routes of the analysis router under the prefix /api
GetRoutes == {"/", "/api/health", "/api/info"}
PostRoutes == {"/api/analyze", "/api/validate"}

\* the status of GET path on the running app: 404 when no route has the path,
\* 405 when only a POST route has it
get(path) ==
    IF path \in GetRoutes THEN 200
    ELSE IF path \in PostRoutes THEN 405
    ELSE 404

\* the dashboard and the integration test probe API_BASE_URL + "/health"
DashboardHealthPath == "/health"
\* the container health check probes api_url + "/api/health"
DockerHealthPath == "/api/health"

---------------------------------------------------------------------------
(* The state machine: a TextProcessor is constructed (its max_length read   *)
(* from the settings), and one operation is applied to one text.            *)

\* every text of at most MaxLen characters of the alphabet
Texts == UNION {[1..n -> Alphabet] : n \in 0..MaxLen}

Rep(c, n) == [i \in 1..n |-> c]

\* the texts A..A!..!a..a, long enough to hold exact percentages
BlockTexts ==
    {Rep("A", i) \o Rep("!", k) \o Rep("a", j) :
        i \in 0..MaxUpper, k \in 0..MaxPunct, j \in 0..MaxLower}

\* the name of the k-th hashtag: a letter and a digit
TagName(k) ==
    <<(<<"a", "f", "i", "h", "t", "p", "s">>)[((k - 1) \div 10) + 1],
      Digits[((k - 1) % 10) + 1]>>

RECURSIVE tag_text(_, _)
\* n hashtags separated by spaces, the j-th one named TagName(((j-1) % d) + 1):
\* d distinct hashtags when d <= n
tag_text(n, d) ==
    IF n = 0 THEN <<>>
    ELSE (IF n = 1 THEN <<>> ELSE tag_text(n - 1, d) \o <<" ">>)
         \o <<"#">> \o TagName(((n - 1) % d) + 1)

\* the texts of up to MaxTags hashtags, some repeated
TagTexts == {tag_text(n, d) : n \in 0..MaxTags, d \in 1..MaxTags}

\* the characters of the texts with accents: letters, the accented letter
\* U+00E9 and the combining acute accent U+0301
AccentAlphabet == {"c", "a", "f", "e", "U+00E9", "U+0301"}

\* every text of at most MaxAccentLen of them
AccentTexts == UNION {[1..n -> AccentAlphabet] : n \in 0..MaxAccentLen}

\* MAX_POST_LENGTH as the environment configures it, or the default
MaxLengths == {SmallMaxPostLength, max_post_length}

\* the pieces a text of tokens is made of
Tokens ==
    {<<"#", "a">>, <<"#", "A">>, <<"#", "U+FB01">>, <<"@", "a">>, <<" ">>,
     <<"$">>, <<"a">>,
     <<"h", "t", "t", "p", ":", "/", "/", "a">>}

RECURSIVE concat(_)
concat(parts) == IF parts = <<>> THEN <<>> ELSE Head(parts) \o concat(Tail(parts))

\* the texts of at most MaxTokens tokens
TokenTexts == {concat(parts) : parts \in UNION {[1..n -> Tokens] : n \in 0..MaxTokens}}

\* the words a^i, a^i a^j and a^i a^j a^k, a space between them
WordTexts ==
    {Rep("a", i) \o s1 \o Rep("a", j) \o s2 \o Rep("a", k) :
        i \in 0..MaxFirstWord, j \in 0..MaxWord, k \in 0..MaxWord,
        s1 \in {<<>>, <<" ">>}, s2 \in {<<>>, <<" ">>}}

\* the max_length arguments of truncate_text: none, small ones, negative
\* ones, and one whose 80% is a whole number
TruncateArgs ==
    {<<>>} \cup {<<m>> : m \in ((0 - MaxNegative)..MaxSmallLimit) \cup {5 * WholeLimitFifth}}

\* TextProcessor.__init__
Construct ==
    /\ max_length \in MaxLengths
    /\ op = "none"
    /\ result = <<>>
    /\ raised = ""
    /\ caught = ""
    /\ backend = "stopped"
    /\ handlers = <<>>

Init == Construct /\ text \in Texts /\ arg = <<>>

InitBlocks == Construct /\ text \in BlockTexts /\ arg = <<>>

InitTags == Construct /\ text \in TagTexts /\ arg = <<>>

InitAccents == Construct /\ text \in AccentTexts /\ arg = <<>>

InitTokens == Construct /\ text \in TokenTexts \cup {None} /\ arg \in {<<>>, <<MaxSmallLimit>>}

\* the texts given to the sentiment analyzer: what the libraries make of a
\* text is not modelled, so one empty text, one non-empty text and the absent
\* text stand for all
InitSentiment == Construct /\ text \in {<<>>, <<"a">>, None} /\ arg = <<>>

\* the TextProcessor of the texts of words may also be configured with a
\* negative MAX_POST_LENGTH
InitWords ==
    /\ max_length \in MaxLengths \cup {0 - MaxNegative}
    /\ op = "none"
    /\ result = <<>>
    /\ raised = ""
    /\ caught = ""
    /\ backend = "stopped"
    /\ handlers = <<>>
    /\ text \in WordTexts
    /\ arg \in TruncateArgs

\* text_processor.clean_text(text)
CleanText ==
    /\ op = "none"
    /\ op' = "clean_text"
    /\ result' = clean_text(text)
    /\ UNCHANGED <<caught, backend, handlers, max_length, text, arg, raised>>

\* text_processor.validate_post(text)
ValidatePost ==
    /\ op = "none"
    /\ op' = "validate_post"
    /\ result' = validate_post(text, max_length)
    /\ UNCHANGED <<caught, backend, handlers, max_length, text, arg, raised>>

\* text_processor.extract_hashtags(text): re.findall raises on None
ExtractHashtags ==
    /\ op = "none"
    /\ op' = "extract_hashtags"
    /\ IF text = None
       THEN raised' = "TypeError" /\ result' = <<>>
       ELSE raised' = "" /\ result' \in extract_hashtags(text)
    /\ UNCHANGED <<caught, backend, handlers, max_length, text, arg>>

\* text_processor.extract_mentions(text)
ExtractMentions ==
    /\ op = "none"
    /\ op' = "extract_mentions"
    /\ IF text = None
       THEN raised' = "TypeError" /\ result' = <<>>
       ELSE raised' = "" /\ result' \in extract_mentions(text)
    /\ UNCHANGED <<caught, backend, handlers, max_length, text, arg>>

\* text_processor.extract_urls(text)
ExtractUrls ==
    /\ op = "none"
    /\ op' = "extract_urls"
    /\ IF text = None
       THEN raised' = "TypeError" /\ result' = <<>>
       ELSE raised' = "" /\ result' \in extract_urls(text)
    /\ UNCHANGED <<caught, backend, handlers, max_length, text, arg>>

\* text_processor.get_text_stats(text): clean_text accepts None, len(text)
\* raises on it
GetTextStats ==
    /\ op = "none"
    /\ op' = "get_text_stats"
    /\ IF text = None
       THEN raised' = "TypeError" /\ result' = <<>>
       ELSE raised' = "" /\ result' \in get_text_stats(text)
    /\ UNCHANGED <<caught, backend, handlers, max_length, text, arg>>

\* text_processor.truncate_text(text, max_length): len(text) raises on None
TruncateText ==
    /\ op = "none"
    /\ op' = "truncate_text"
    /\ IF text = None
       THEN raised' = "TypeError" /\ result' = <<>>
       ELSE raised' = "" /\ result' = truncate_text(text, arg, max_length)
    /\ UNCHANGED <<caught, backend, handlers, max_length, text, arg>>

\* the values TextBlob and VADER can give, the ones outside the nominal
\* ranges included
Signals == (0 - MaxSignal)..MaxSignal
Subjectivities == 0..MaxSubjectivity

\* the pos, neg and neu proportions of VADER, in tenths: they add up to 1
Proportions ==
    {[pos |-> 0, neg |-> 0, neu |-> 10], [pos |-> 10, neg |-> 0, neu |-> 0],
     [pos |-> 0, neg |-> 10, neu |-> 0], [pos |-> 3, neg |-> 2, neu |-> 5]}

\* the calls of the try block that can raise: TextBlob(text) with its
\* sentiment, and self.vader_analyzer.polarity_scores(text)
Failures == {"TextBlob", "polarity_scores"}

\* sentiment_analyzer.analyze_sentiment(text): the two libraries give their
\* signals for the text and the analyzer combines and classifies them, or one
\* of them raises (TextBlob does on a text that is no string) and the
\* except branch returns the fallback record
AnalyzeSentiment ==
    /\ op = "none"
    /\ op' = "analyze_sentiment"
    /\ \/ /\ text # None
          /\ \E polarity \in Signals, compound \in Signals,
                subjectivity \in Subjectivities, proportions \in Proportions :
                 result' = analyze_sentiment(polarity, subjectivity,
                                             [compound |-> compound,
                                              pos |-> proportions.pos,
                                              neg |-> proportions.neg,
                                              neu |-> proportions.neu])
          /\ caught' = ""
       \/ /\ caught' \in (IF text = None THEN {"TextBlob"} ELSE Failures)
          /\ result' = _get_fallback_sentiment
    /\ raised' = ""
    /\ UNCHANGED <<backend, handlers, max_length, text, arg>>

\* the texts of a batch
BatchTexts == {<<>>, <<"a">>, <<"a", "$", "a", "a", "a">>, None}

\* what the libraries can make of a text: signals of a positive, a neutral and
\* a negative text, or an exception of one of the two
Outcomes ==
    {[caught |-> "", polarity |-> 5, subjectivity |-> 8,
      vader |-> [compound |-> 8, pos |-> 10, neg |-> 0, neu |-> 0]],
     [caught |-> "", polarity |-> 0, subjectivity |-> 0,
      vader |-> [compound |-> 0, pos |-> 0, neg |-> 0, neu |-> 10]],
     [caught |-> "", polarity |-> 0 - 5, subjectivity |-> 5,
      vader |-> [compound |-> 0 - 5, pos |-> 0, neg |-> 10, neu |-> 0]]}
    \cup {[caught |-> f] : f \in Failures}

\* the libraries are functions of the text; TextBlob raises on the absent text
Libraries ==
    {library \in [BatchTexts -> Outcomes] : library[None].caught = "TextBlob"}

\* the lists of at most MaxBatch texts
Batches == UNION {[1..n -> BatchTexts] : n \in 0..MaxBatch}

\* a batch of texts and the libraries the analyzer calls
InitBatch == Construct /\ text \in Batches /\ arg \in Libraries

\* sentiment_analyzer.analyze_sentiment_batch(texts)
AnalyzeSentimentBatch ==
    /\ op = "none"
    /\ op' = "analyze_sentiment_batch"
    /\ result' = analyze_sentiment_batch(text, arg)
    /\ caught' = [i \in 1..Len(text) |-> arg[text[i]].caught]
    /\ raised' = ""
    /\ UNCHANGED <<backend, handlers, max_length, text, arg>>

\* clean_and_validate_post(text)
CleanAndValidatePost ==
    /\ op = "none"
    /\ op' = "clean_and_validate_post"
    /\ result' = clean_and_validate_post(text, max_length)
    /\ UNCHANGED <<caught, backend, handlers, max_length, text, arg, raised>>

\* get_post_statistics(text): get_text_stats raises on None
GetPostStatistics ==
    /\ op = "none"
    /\ op' = "get_post_statistics"
    /\ IF text = None
       THEN raised' = "TypeError" /\ result' = <<>>
       ELSE raised' = "" /\ result' \in get_post_statistics(text)
    /\ UNCHANGED <<caught, backend, handlers, max_length, text, arg>>

\* the request handlers
Handlers == 1..NumHandlers

\* the texts of the requests
HandlerTexts == BatchTexts \ {<<>>, None}

\* the functions a handler calls on the shared instances
Calls == {"clean_and_validate_post", "get_post_statistics", "analyze_sentiment"}

\* a handler that is not in a call
Idle == [pc |-> "idle", call |-> "", text |-> <<>>, cleaned_text |-> <<>>,
         result |-> <<>>]

\* the shared instances are constructed and no handler has called yet; both
\* libraries find the empty text neutral
InitHandlers ==
    /\ max_length \in MaxLengths
    /\ text = <<>>
    /\ arg \in {library \in Libraries :
                  library[<<>>].caught = "" /\ library[<<>>].polarity = 0}
    /\ op = "none"
    /\ result = <<>>
    /\ raised = ""
    /\ caught = ""
    /\ backend = "running"
    /\ handlers = [h \in Handlers |-> Idle]

\* handler h enters one of the module-level functions with the text of its
\* request
Receive(h) ==
    /\ handlers[h].pc = "idle"
    /\ \E call \in Calls, t \in HandlerTexts :
           handlers' = [handlers EXCEPT ![h] =
                           [Idle EXCEPT !.pc = "called", !.call = call, !.text = t]]
    /\ UNCHANGED <<max_length, text, arg, op, result, raised, caught, backend>>

\* clean_and_validate_post, first statement: text_processor.clean_text(text)
CleanStep(h) ==
    /\ handlers[h].pc = "called"
    /\ handlers[h].call = "clean_and_validate_post"
    /\ handlers' = [handlers EXCEPT ![h].pc = "cleaned",
                                    ![h].cleaned_text = clean_text(handlers[h].text)]
    /\ UNCHANGED <<max_length, text, arg, op, result, raised, caught, backend>>

\* ValidateStep keeping the length of the text it judges in self.max_length
ValidateStep_storing(h) ==
    /\ handlers[h].pc = "cleaned"
    /\ LET cleaned_text == handlers[h].cleaned_text
           v == validate_post(cleaned_text, max_length)
       IN  handlers' = [handlers EXCEPT ![h].pc = "returned",
                           ![h].result = [cleaned_text |-> cleaned_text,
                                          is_valid |-> v.is_valid,
                                          errors |-> v.errors]]
    /\ max_length' = Len(handlers[h].cleaned_text)
    /\ UNCHANGED <<text, arg, op, result, raised, caught, backend>>

\* clean_and_validate_post, second statement and return:
\* text_processor.validate_post(cleaned_text), which reads self.max_length
ValidateStep(h) ==
    /\ handlers[h].pc = "cleaned"
    /\ LET cleaned_text == handlers[h].cleaned_text
           v == validate_post(cleaned_text, max_length)
       IN  handlers' = [handlers EXCEPT ![h].pc = "returned",
                           ![h].result = [cleaned_text |-> cleaned_text,
                                          is_valid |-> v.is_valid,
                                          errors |-> v.errors]]
    /\ UNCHANGED <<max_length, text, arg, op, result, raised, caught, backend>>

\* get_post_statistics: text_processor.get_text_stats(text)
StatisticsStep(h) ==
    /\ handlers[h].pc = "called"
    /\ handlers[h].call = "get_post_statistics"
    /\ \E stats \in get_post_statistics(handlers[h].text) :
           handlers' = [handlers EXCEPT ![h].pc = "returned", ![h].result = stats]
    /\ UNCHANGED <<max_length, text, arg, op, result, raised, caught, backend>>

\* analyze_sentiment, the TextBlob statements: the except branch returns the
\* fallback record when TextBlob raises
TextBlobStep(h) ==
    /\ handlers[h].pc = "called"
    /\ handlers[h].call = "analyze_sentiment"
    /\ IF arg[handlers[h].text].caught = "TextBlob"
       THEN handlers' = [handlers EXCEPT ![h].pc = "returned",
                                        ![h].result = _get_fallback_sentiment]
       ELSE handlers' = [handlers EXCEPT ![h].pc = "blob"]
    /\ UNCHANGED <<max_length, text, arg, op, result, raised, caught, backend>>

\* analyze_sentiment, from self.vader_analyzer.polarity_scores(text) to the
\* return
VaderStep(h) ==
    /\ handlers[h].pc = "blob"
    /\ handlers' = [handlers EXCEPT ![h].pc = "returned",
                       ![h].result = analyze_sentiment_of(arg[handlers[h].text])]
    /\ UNCHANGED <<max_length, text, arg, op, result, raised, caught, backend>>

\* handler h has sent its response and waits for the next request
Respond(h) ==
    /\ handlers[h].pc = "returned"
    /\ handlers' = [handlers EXCEPT ![h] = Idle]
    /\ UNCHANGED <<max_length, text, arg, op, result, raised, caught, backend>>

\* the steps of the handlers, in any order
NextHandlers ==
    \E h \in Handlers :
        \/ Receive(h)
        \/ Respond(h)
        \/ CleanStep(h)
        \/ ValidateStep(h)
        \/ StatisticsStep(h)
        \/ TextBlobStep(h)
        \/ VaderStep(h)

\* the texts of the requests to the API: short ones, one that is longer than
\* the request model accepts, and null
ApiTexts ==
    UNION {[1..n -> {"a", " ", "$"}] : n \in 0..MaxApiLen}
    \cup {Rep("a", request_max_length + 1), None}

\* the platform of a request: <<name>>, or null
Platforms == {<<"twitter">>, None}

\* the API server runs or not; a client has a request to send
InitApi ==
    /\ max_length \in MaxLengths
    /\ text \in ApiTexts
    /\ arg \in Platforms
    /\ op = "none"
    /\ result = <<>>
    /\ raised = ""
    /\ caught = ""
    /\ backend \in {"running", "stopped"}
    /\ handlers = <<>>

\* POST /api/analyze with the text and the platform, on the running server
AnalyzePost ==
    /\ op = "none"
    /\ backend = "running"
    /\ op' = "analyze_post"
    /\ result' = analyze_post(text, arg, max_length)
    /\ UNCHANGED <<caught, backend, handlers, max_length, text, arg, raised>>

\* the dashboard: check_api_health() and the page main() goes on to; the
\* request raises when the server is stopped, and the bare except returns
\* False
CheckApiHealth ==
    /\ op = "none"
    /\ op' = "check_api_health"
    /\ LET status_code == IF backend = "running" THEN get(DashboardHealthPath) ELSE 0
           api_healthy == backend = "running" /\ status_code = 200
       IN  result' = [status_code |-> status_code,
                      api_healthy |-> api_healthy,
                      page |-> IF api_healthy THEN "Post Analysis"
                               ELSE "Backend Not Available"]
    /\ caught' = (IF backend = "running" THEN "" ELSE "ConnectionError")
    /\ UNCHANGED <<backend, handlers, max_length, text, arg, raised>>

\* the integration test test_backend_startup()
TestBackendStartup ==
    /\ op = "none"
    /\ op' = "test_backend_startup"
    /\ LET status_code == IF backend = "running" THEN get(DashboardHealthPath) ELSE 0
       IN  result' = [status_code |-> status_code,
                      passed |-> backend = "running" /\ status_code = 200]
    /\ caught' = (IF backend = "running" THEN "" ELSE "RequestException")
    /\ UNCHANGED <<backend, handlers, max_length, text, arg, raised>>

\* the container health check check_api_health() of docker/healthcheck.py
DockerCheckApiHealth ==
    /\ op = "none"
    /\ op' = "docker_check_api_health"
    /\ LET status_code == IF backend = "running" THEN get(DockerHealthPath) ELSE 0
       IN  result' = [status_code |-> status_code,
                      status |-> IF backend = "running" /\ status_code = 200
                                 THEN "healthy" ELSE "unhealthy"]
    /\ caught' = (IF backend = "running" THEN "" ELSE "RequestException")
    /\ UNCHANGED <<backend, handlers, max_length, text, arg, raised>>

\* the requests to the API
NextApi ==
    \/ AnalyzePost
    \/ CheckApiHealth
    \/ TestBackendStartup
    \/ DockerCheckApiHealth

Next == CleanText \/ ValidatePost

\* every operation of the TextProcessor
NextOps ==
    \/ CleanText
    \/ ValidatePost
    \/ ExtractHashtags
    \/ ExtractMentions
    \/ ExtractUrls
    \/ GetTextStats
    \/ TruncateText

Spec == Init /\ [][Next]_vars

\* the same operations on the block texts
SpecBlocks == InitBlocks /\ [][Next]_vars

\* the same operations on the texts of hashtags
SpecTags == InitTags /\ [][Next]_vars

\* every operation on the texts of tokens and on the absent text
SpecTokens == InitTokens /\ [][NextOps]_vars

\* analyze_sentiment on a text, for every pair of signals
SpecSentiment == InitSentiment /\ [][AnalyzeSentiment]_vars

\* truncate_text on the texts of words
SpecWords == InitWords /\ [][TruncateText]_vars

\* clean_text on the texts with accents
SpecAccents == InitAccents /\ [][CleanText]_vars

\* clean_and_validate_post on every text
SpecPosts == Init /\ [][CleanAndValidatePost]_vars

\* get_post_statistics on the texts of tokens and on the absent text
SpecStatistics == InitTokens /\ [][GetPostStatistics]_vars

\* concurrent calls of the request handlers on the shared instances
SpecHandlers == InitHandlers /\ [][NextHandlers]_vars

\* the requests to the API, the server running or stopped
SpecApi == InitApi /\ [][NextApi]_vars

\* analyze_sentiment_batch on the batches
SpecBatch == InitBatch /\ [][AnalyzeSentimentBatch]_vars

---------------------------------------------------------------------------
(* Properties of clean_text. *)

Range(seq) == {seq[i] : i \in 1..Len(seq)}

\* the text is empty or made of whitespace only
Blank(s) == \A i \in 1..Len(s) : IsSpace(s[i])

\* C1: clean_text is idempotent: cleaning the text clean_text returned gives
\* that text back.
C1_Idempotent ==
    op = "clean_text" => clean_text(result) = result

\* C2: a text clean_text returned has no leading or trailing whitespace, no
\* two adjacent whitespace characters, and allow-listed characters only.
C2_CleanedShape ==
    op = "clean_text" =>
        /\ result # <<>> => ~IsSpace(result[1]) /\ ~IsSpace(result[Len(result)])
        /\ \A i \in 1..(Len(result) - 1) :
               ~(IsSpace(result[i]) /\ IsSpace(result[i+1]))
        /\ \A i \in 1..Len(result) : Allowed(result[i])

\* C3: clean_text never returns a text longer than its argument.
C3_NotLonger ==
    op = "clean_text" => Len(result) <= Len(text)

---------------------------------------------------------------------------
(* Properties of validate_post. *)

\* C4: is_valid is true exactly when the error list is empty.
C4_ValidIffNoErrors ==
    op = "validate_post" => (result.is_valid <=> result.errors = <<>>)

\* a non-blank text passed validation
C4_Witness ==
    /\ op = "validate_post"
    /\ ~Blank(text)
    /\ result.is_valid
    /\ result.errors = <<>>

\* C5: an empty or whitespace-only text is invalid with the one error "Post
\* cannot be empty"; no other rule adds an error, whatever its condition.
C5_EmptyShortCircuits ==
    (op = "validate_post" /\ Blank(text)) =>
        result = [is_valid |-> FALSE, errors |-> <<ErrEmpty>>]

\* a whitespace-only text longer than max_length, with four equal characters
\* in a row, was validated
C5_Witness ==
    /\ op = "validate_post"
    /\ text # <<>>
    /\ Blank(text)
    /\ Len(text) > max_length
    /\ _has_excessive_repetition(text)
    /\ result.errors = <<ErrEmpty>>

\* C6: for a non-blank text each of the four rules adds its error exactly when
\* its own condition holds, whatever the other rules found, in the order
\* length, too short, repetition, spam.
C6_RulesIndependent ==
    (op = "validate_post" /\ ~Blank(text)) =>
        result.errors =
            (IF Len(text) > max_length THEN <<ErrLength(max_length)>> ELSE <<>>)
            \o (IF Len(strip(text)) < 3 THEN <<ErrShort>> ELSE <<>>)
            \o (IF _has_excessive_repetition(text) THEN <<ErrRepetition>> ELSE <<>>)
            \o (IF _is_spam_like(text) THEN <<ErrSpam>> ELSE <<>>)

\* a text that breaks at least three rules got all of their errors
C6_Witness ==
    /\ op = "validate_post"
    /\ ~Blank(text)
    /\ Len(result.errors) >= 3

\* C7: for a non-blank text the length error, citing the limit, is reported
\* exactly when the text is longer than max_length, and then the text is
\* invalid.
C7_LengthRule ==
    (op = "validate_post" /\ ~Blank(text)) =>
        /\ (ErrLength(max_length) \in Range(result.errors)) <=> (Len(text) > max_length)
        /\ Len(text) > max_length => ~result.is_valid
        /\ \A m \in MaxLengths \ {max_length} :
               ErrLength(m) \notin Range(result.errors)

\* a text one character over the limit is invalid for that reason alone
C7_Witness ==
    /\ op = "validate_post"
    /\ Len(text) = max_length + 1
    /\ result = [is_valid |-> FALSE, errors |-> <<ErrLength(max_length)>>]

\* the number of characters from the first to the last non-whitespace one
TrimmedLength(s) ==
    Cardinality({i \in 1..Len(s) :
        /\ \E j \in 1..i : ~IsSpace(s[j])
        /\ \E j \in i..Len(s) : ~IsSpace(s[j])})

\* C8: for a non-blank text the too-short error is reported exactly when the
\* text without its leading and trailing whitespace has fewer than 3
\* characters.
C8_TooShortRule ==
    (op = "validate_post" /\ ~Blank(text)) =>
        ((ErrShort \in Range(result.errors)) <=> (TrimmedLength(text) < 3))

\* a text of three or more characters was too short once trimmed
C8_Witness ==
    /\ op = "validate_post"
    /\ ~Blank(text)
    /\ Len(text) >= 3
    /\ IsSpace(text[1])
    /\ TrimmedLength(text) = 2
    /\ ErrShort \in Range(result.errors)

\* some character occurs four times in a row
CharRun4(s) ==
    \E i \in 1..(Len(s) - 3) :
        s[i+1] = s[i] /\ s[i+2] = s[i] /\ s[i+3] = s[i]

\* some word occurs three times in a row
WordRun3(s) ==
    LET words == split(s)
    IN  \E i \in 1..(Len(words) - 2) :
            words[i+1] = words[i] /\ words[i+2] = words[i]

\* C9: the repetition error is reported for a (non-blank) text exactly when
\* some character of any kind, whitespace and line breaks included, occurs 4
\* or more times in a row, or some word occurs 3 times in a row.
C9_RepetitionRule ==
    (op = "validate_post" /\ ~Blank(text)) =>
        ((ErrRepetition \in Range(result.errors)) <=> (CharRun4(text) \/ WordRun3(text)))

\* C10: the spam-like error is reported when the uppercase letters are
\* strictly more than 70% of the length of the text, or the '!' and '?' are
\* strictly more than 10% of it; at exactly 70% and 10% (and below) neither
\* condition fires.
C10_SpamThresholds ==
    (op = "validate_post" /\ ~Blank(text)) =>
        ((ErrSpam \in Range(result.errors)) <=>
            \/ 10 * count_upper(text) > 7 * Len(text)
            \/ 10 * count_punct(text) > Len(text)
            \/ hashtag_matches(text) > 10)

---------------------------------------------------------------------------
(* Properties of the hashtag rule. *)

\* the word that starts at position i and runs to the end of the word
\* characters
WordAt(s, i) ==
    LET stop == {j \in i..(Len(s) + 1) : j = Len(s) + 1 \/ ~IsWord(s[j])}
        j == CHOOSE k \in stop : \A l \in stop : k <= l
    IN  SubSeq(s, i, j - 1)

\* the distinct tags that follow the prefix character c in s
TagsAfter(s, c) ==
    {WordAt(s, i + 1) : i \in {k \in 1..(Len(s) - 1) : s[k] = c /\ IsWord(s[k+1])}}

\* C11: the hashtag condition of the spam-like rule fires exactly when the
\* text holds more than 10 distinct hashtags (the texts of hashtags meet no
\* other condition of the rule).
C11_DistinctHashtags ==
    (op = "validate_post" /\ ~Blank(text)) =>
        ((ErrSpam \in Range(result.errors)) <=>
            \/ Cardinality(TagsAfter(text, "#")) > 10
            \/ 10 * count_upper(text) > 7 * Len(text)
            \/ 10 * count_punct(text) > Len(text))

---------------------------------------------------------------------------
(* Properties of the extraction operations and of get_text_stats. *)

NoDuplicates(l) == \A i, j \in 1..Len(l) : l[i] = l[j] => i = j

\* C12: extract_hashtags (extract_mentions) returns every distinct tag that
\* follows a '#' (a '@') exactly once, without the prefix character and as it
\* is written in the text.
C12_TagsOnce ==
    /\ (op = "extract_hashtags" /\ raised = "") =>
           NoDuplicates(result) /\ Range(result) = TagsAfter(text, "#")
    /\ (op = "extract_mentions" /\ raised = "") =>
           NoDuplicates(result) /\ Range(result) = TagsAfter(text, "@")

\* a text where a hashtag occurs more than once, and "a" and "A" both occur
C12_Witness ==
    /\ op = "extract_hashtags"
    /\ raised = ""
    /\ Len(findall_tags(text, "#", 1)) > Len(result)
    /\ {<<"a">>, <<"A">>} \subseteq Range(result)

\* C13: in a record of get_text_stats the three counts are the sizes of the
\* deduplicated lists of the same record, and the lists hold what the raw
\* text holds, not what the cleaned text holds.
C13_StatsCounts ==
    (op = "get_text_stats" /\ raised = "") =>
        /\ NoDuplicates(result.hashtags)
        /\ NoDuplicates(result.mentions)
        /\ NoDuplicates(result.urls)
        /\ result.hashtag_count = Len(result.hashtags)
        /\ result.mention_count = Len(result.mentions)
        /\ result.url_count = Len(result.urls)
        /\ Range(result.hashtags) = TagsAfter(text, "#")
        /\ Range(result.mentions) = TagsAfter(text, "@")
        /\ Range(result.urls) = set_of(findall_urls(text, 1))

\* a text where a hashtag occurs twice and the cleaned text holds another
\* hashtag than the raw text
C13_Witness ==
    /\ op = "get_text_stats"
    /\ raised = ""
    /\ Len(findall_tags(text, "#", 1)) > result.hashtag_count
    /\ TagsAfter(clean_text(text), "#") # TagsAfter(text, "#")
    /\ result.hashtag_count > 0

---------------------------------------------------------------------------
(* Properties of truncate_text. *)

\* the limit truncate_text works with
Limit == IF arg = <<>> THEN max_length ELSE arg[1]

EndsWithEllipsis(s) ==
    Len(s) >= 3 /\ SubSeq(s, Len(s) - 2, Len(s)) = Ellipsis

\* s is the first Len(s) characters of t
IsPrefix(s, t) == Len(s) <= Len(t) /\ s = SubSeq(t, 1, Len(s))

\* C14: truncate_text returns a text of at most max_length characters
\* unchanged; otherwise the result is a prefix of the text of at most
\* max_length - 3 characters followed by "...", so it is never longer than
\* max_length (stated for the limits that are not negative).
C14_TruncateLength ==
    (op = "truncate_text" /\ raised = "" /\ Limit >= 0) =>
        IF Len(text) <= Limit THEN result = text
        ELSE /\ EndsWithEllipsis(result)
             /\ IsPrefix(SubSeq(result, 1, Len(result) - 3), text)
             /\ Len(result) - 3 <= Limit - 3
             /\ Len(result) <= Limit

\* the 0-based indexes of the spaces of the cut that are at or after 80% of
\* the limit
QualifyingSpaces ==
    {i \in 0..(Limit - 4) : i < Len(text) /\ text[i + 1] = " " /\ 10 * i >= 8 * Limit}

\* C15: when truncate_text has to cut and the cut of max_length - 3
\* characters holds a space at an index at or after 80% of max_length, the
\* result is the text up to the last such space followed by "..."; without
\* such a space it is the plain cut followed by "..." (stated for limits of
\* 3 and more).
C15_WordBoundary ==
    (op = "truncate_text" /\ raised = "" /\ Limit >= 3 /\ Len(text) > Limit) =>
        IF QualifyingSpaces # {}
        THEN LET last == CHOOSE i \in QualifyingSpaces :
                             \A j \in QualifyingSpaces : j <= i
             IN  result = SubSeq(text, 1, last) \o Ellipsis
        ELSE result = SubSeq(text, 1, Limit - 3) \o Ellipsis

---------------------------------------------------------------------------
(* Properties of the failure behaviour. *)

\* C16: no operation raises on an absent or empty text.
C16_NoRaiseOnAbsent ==
    (op # "none" /\ text \in {None, <<>>}) => raised = ""

\* C17: truncate_text with a negative max_length, given or configured,
\* signals an error instead of returning a text.
C17_NegativeLimitRejected ==
    (op = "truncate_text" /\ Limit < 0) => raised # ""

---------------------------------------------------------------------------
(* Properties of the sentiment scores. *)

\* the weighted sum of the signals of the record, in hundredths
WeightedSum ==
    3 * result.details.textblob.polarity + 7 * result.details.vader.compound

\* C18: the score of a record is 0.3 * polarity + 0.7 * compound clamped into
\* [-1, 1], and lies in [-1, 1] whatever the signals are.
C18_ScoreClamped ==
    op = "analyze_sentiment" =>
        /\ result.score = (IF WeightedSum > 100 THEN 100
                           ELSE IF WeightedSum < 0 - 100 THEN 0 - 100
                           ELSE WeightedSum)
        /\ result.score >= 0 - 100
        /\ result.score <= 100

\* signals beyond their nominal range whose weighted sum is above 1
C18_Witness ==
    /\ op = "analyze_sentiment"
    /\ result.details.textblob.polarity > 10
    /\ WeightedSum > 100
    /\ result.score = 100

\* C19: the classification is positive exactly when the score is above 0.1,
\* negative exactly when it is below -0.1, and neutral otherwise, the scores
\* 0.1 and -0.1 included.
C19_Thresholds ==
    op = "analyze_sentiment" =>
        /\ result.sentiment \in {"positive", "negative", "neutral"}
        /\ result.sentiment = "positive" <=> result.score > 10
        /\ result.sentiment = "negative" <=> result.score < 0 - 10
        /\ result.score \in {10, 0 - 10} => result.sentiment = "neutral"

\* a score of exactly 0.1 classified as neutral
C19_Witness ==
    /\ op = "analyze_sentiment"
    /\ result.score = 10
    /\ result.sentiment = "neutral"

\* C20: when the score was classified (no signal failed), the confidence is
\* min(1, (score - 0.1) / 0.9) of a positive score,
\* min(1, (-0.1 - score) / 0.9) of a negative one and 1 - |score| of a
\* neutral one, and it lies in [0, 1].
C20_Confidence ==
    op = "analyze_sentiment" /\ caught = "" =>
        LET c == result.confidence
            sc == result.score
        IN  /\ c.den > 0
            /\ result.sentiment = "positive" =>
                   c.num * 90 = c.den * Min(90, sc - 10)
            /\ result.sentiment = "negative" =>
                   c.num * 90 = c.den * Min(90, (0 - 10) - sc)
            /\ result.sentiment = "neutral" =>
                   c.num * 100 = c.den * (100 - Abs(sc))
            /\ c.num >= 0
            /\ c.num <= c.den

\* a score of 1 classified as positive with confidence 1
C20_Witness ==
    /\ op = "analyze_sentiment"
    /\ result.score = 100
    /\ result.sentiment = "positive"
    /\ result.confidence.num = result.confidence.den

---------------------------------------------------------------------------
(* Properties of the fallback record. *)

C22_Batch ==
    op = "analyze_sentiment_batch" =>
        /\ raised = ""
        /\ Len(result) = Len(text)
        /\ \A i \in 1..Len(text) :
               LET outcome == arg[text[i]]
               IN  IF outcome.caught # ""
                   THEN result[i] = _get_fallback_sentiment
                   ELSE result[i] = analyze_sentiment(outcome.polarity,
                                                      outcome.subjectivity,
                                                      outcome.vader)

\* a batch whose first text fails and whose second text is classified
C22_Witness ==
    /\ op = "analyze_sentiment_batch"
    /\ Len(text) = 2
    /\ caught[1] # ""
    /\ caught[2] = ""
    /\ Len(result) = 2
    /\ result[1].explanation = FallbackExplanation
    /\ result[2].sentiment = "positive"

---------------------------------------------------------------------------
(* Properties of the shared instances. *)

\* the result of the call of handler h when it runs alone
Alone(h) ==
    LET t == handlers[h].text
    IN  IF handlers[h].call = "clean_and_validate_post"
        THEN {clean_and_validate_post(t, max_length)}
        ELSE IF handlers[h].call = "get_post_statistics"
        THEN get_post_statistics(t)
        ELSE {analyze_sentiment_of(arg[t])}

\* C23: under any interleaving of the handlers' calls every call returns what
\* it returns when run alone, and no step changes a field of the shared
\* instances (max_length).
C23_Reentrant ==
    /\ [](\A h \in Handlers :
             handlers[h].pc = "returned" => handlers[h].result \in Alone(h))
    /\ [][max_length' = max_length]_vars

\* a handler has returned from clean_and_validate_post while another one is
\* between its clean_text and its validate_post
C23_Witness ==
    /\ handlers # <<>>
    /\ \E h, g \in Handlers :
           /\ h # g
           /\ handlers[h].pc = "cleaned"
           /\ handlers[g].pc = "returned"
           /\ handlers[g].call = "clean_and_validate_post"
           /\ handlers[g].text = handlers[h].text
           /\ ~handlers[g].result.is_valid

---------------------------------------------------------------------------
(* Properties of the explanation. *)

\* the base sentence of the classification of the record
BaseSentence ==
    IF result.sentiment = "positive"
    THEN "The post has a positive tone that could engage your audience well."
    ELSE IF result.sentiment = "negative"
    THEN "The post may come across as negative or critical."
    ELSE "The post has a balanced, neutral tone."

\* the subjectivity clause of the record, "" when there is none
SubjectivityClause ==
    IF result.details.textblob.subjectivity > 7
    THEN " The content is quite subjective and personal."
    ELSE IF result.details.textblob.subjectivity < 3
    THEN " The content is objective and factual."
    ELSE ""

\* the intensity clause of the record, "" when there is none
IntensityClause ==
    IF result.details.combined > 70 \/ result.details.combined < 0 - 70
    THEN " The sentiment is strongly expressed."
    ELSE IF result.details.combined < 20 /\ result.details.combined > 0 - 20
    THEN " The sentiment is subtle and understated."
    ELSE ""

\* C24: the explanation of a classified text is the base sentence of the
\* classification, then the subjectivity clause ("quite subjective" iff the
\* subjectivity is above 0.7, "objective and factual" iff it is below 0.3),
\* then the intensity clause ("strongly expressed" iff |combined| is above
\* 0.7, "subtle and understated" iff it is below 0.2); each clause is chosen
\* without regard to the other.
C24_Explanation ==
    op = "analyze_sentiment" /\ caught = "" =>
        result.explanation = BaseSentence \o SubjectivityClause \o IntensityClause

\* an explanation with both clauses
C24_Witness ==
    /\ op = "analyze_sentiment"
    /\ caught = ""
    /\ result.details.textblob.subjectivity > 7
    /\ result.details.combined > 70
    /\ result.explanation =
           "The post has a positive tone that could engage your audience well."
           \o " The content is quite subjective and personal."
           \o " The sentiment is strongly expressed."

---------------------------------------------------------------------------
(* Properties of the module-level functions and of the accented letters. *)

\* the text s holds the characters of sub next to each other
Contains(s, sub) ==
    \E i \in 1..(Len(s) - Len(sub) + 1) : SubSeq(s, i, i + Len(sub) - 1) = sub

\* C25: the cleaned form of a text that holds "caf" and an accented e (one
\* character, or an e and a combining accent) holds "cafe": the accented
\* letter has become its base letter.
C25_AccentsRemoved ==
    /\ op = "clean_text"
    /\ \/ Contains(text, <<"c", "a", "f", "U+00E9">>)
       \/ Contains(text, <<"c", "a", "f", "e", "U+0301">>)
    => Contains(result, <<"c", "a", "f", "e">>)

\* C26: the record get_post_statistics returns has the keys char_count and
\* word_count.
C26_StatsKeys ==
    op = "get_post_statistics" /\ raised = "" =>
        {"char_count", "word_count"} \subseteq DOMAIN result

---------------------------------------------------------------------------
(* Properties of the API. *)

\* C27: a POST /api/analyze whose text is empty, or whose post (of a length
\* the request model accepts) fails the validation, is answered with 400 and
\* the reasons, never with 200, 422 or 500.
C27_InvalidIs400 ==
    /\ op = "analyze_post"
    /\ text # None
    /\ Len(text) <= request_max_length
    /\ text = <<>> \/ ~clean_and_validate_post(text, max_length).is_valid
    => /\ result.status_code = 400
       /\ result.detail =
              "Invalid post: " \o join(clean_and_validate_post(text, max_length).errors)

\* C28: when the server runs, the probe of the dashboard and of the
\* integration test is answered with 200, check_api_health returns True and
\* the dashboard goes on to the post analysis.
C28_ProbeAnswered ==
    /\ backend = "running" /\ op = "check_api_health" =>
           /\ result.status_code = 200
           /\ result.api_healthy
           /\ result.page = "Post Analysis"
    /\ backend = "running" /\ op = "test_backend_startup" =>
           /\ result.status_code = 200
           /\ result.passed

---------------------------------------------------------------------------
(* Properties of clean_and_validate_post and of the returned records. *)

C30_ScoreAndLabel ==
    op = "analyze_sentiment" =>
        /\ result.details.combined = result.score
        /\ result.sentiment = (IF result.score > 10 THEN "positive"
                               ELSE IF result.score < 0 - 10 THEN "negative"
                               ELSE "neutral")

\* a classified record with a negative score
C30_Witness ==
    /\ op = "analyze_sentiment"
    /\ caught = ""
    /\ result.score < 0 - 10
    /\ result.details.combined = result.score
    /\ result.sentiment = "negative"

===========================================================================
